---- MODULE Spec2Model ----
(***************************************************************************)
(* A model of pokefilter.py: the Filter predicate object, the paged        *)
(* listing fetch (query_paged) and the fetch / filter / aggregate run      *)
(* (get_pokemon).                                                          *)
(*                                                                         *)
(* Python values are records [kind, i, s] so that values of different      *)
(* Python types can live in one set: an int n is [kind |-> "int", i |-> n],*)
(* a str x is [kind |-> "str", s |-> x], None is [kind |-> "none"].        *)
(***************************************************************************)
EXTENDS Integers, Sequences, FiniteSets, TLC

\* ------------------------------------------------------------- bounds
\* Range bounds of the filters built in SpecFilter are drawn from 0..MaxVal,
\* the heights / XP values queried from -1..MaxVal+1.
MaxVal == 2
\* Longest listing query_paged hands to get_pokemon in SpecPipe.
MaxListing == 3
\* Items per page of the listing in SpecPipe.
PageSize == 2
\* Number of page URLs of the catalog in SpecPaged.
NPages == 3
\* Most calls of query() one query_paged call makes in the model (a cycle of next
\* links would make them endless).
MaxFetches == 5

VARIABLES
    filter,            \* the Filter object: self.types, self.height_range, self.xp_range
    ctor,              \* the arguments of the last Filter(...) call
    call,              \* the last query made on the filter: name, input, result
    pages,             \* the remote catalog: what query(url) answers for a page URL
    pc,                \* where the run is
    url,               \* query_paged: url (0 is None)
    paged,             \* query_paged: results
    pageFetches,       \* the page URLs handed to query(), in call order
    pokemons,          \* get_pokemon: pokemons
    idx,               \* get_pokemon: position of the first loop in pokemons
    detailFetches,     \* the items whose detail URL was handed to query(), in call order
    passing_pokemons,  \* get_pokemon: passing_pokemons
    agg,               \* get_pokemon: position of the second loop in passing_pokemons
    results,           \* get_pokemon: results
    printed            \* whether pprint(results) ran

vars == <<filter, ctor, call, pages, pc, url, paged, pageFetches, pokemons, idx,
          detailFetches, passing_pokemons, agg, results, printed>>

filterVars == <<filter, ctor, call>>
runVars == <<pages, pc, url, paged, pageFetches, pokemons, idx, detailFetches,
             passing_pokemons, agg, results, printed>>

\* ------------------------------------------------------ Python values
IntV(n) == [kind |-> "int", i |-> n, s |-> ""]
StrV(x) == [kind |-> "str", i |-> 0, s |-> x]
NoneV == [kind |-> "none", i |-> 0, s |-> ""]

\* A Python set / list argument and a tuple / bare int argument.
SetArg(S) == [kind |-> "set", elems |-> S]
ListArg(S) == [kind |-> "list", elems |-> S]
TupleArg(q) == [kind |-> "tuple", elems |-> q]
BareInt(n) == [kind |-> "int", elems |-> <<IntV(n)>>]

\* ------------------------------------------------------------- Filter
NoFilter == [state |-> "none", types |-> {}, height_range |-> <<>>, xp_range |-> <<>>]
Raised(exc) == [state |-> exc, types |-> {}, height_range |-> <<>>, xp_range |-> <<>>]

\* assert(isinstance(str, x) for x in xs): the argument of assert is a generator
\* object, which is truthy; the isinstance calls inside it never run.
GeneratorAssert(xs) == TRUE

\* Filter.__init__ with an added low <= high check (a variant the source does not have).
FilterInitOrdered(types, height_range, xp_range) ==
    LET ordered(r) == r[1].kind = "int" /\ r[2].kind = "int" => r[1].i <= r[2].i
    IN
    IF /\ types.kind = "set"
       /\ height_range.kind = "tuple"
       /\ xp_range.kind = "tuple"
       /\ Cardinality(types.elems) > 0
       /\ Len(height_range.elems) = 2
       /\ Len(xp_range.elems) = 2
       /\ ordered(height_range.elems)
       /\ ordered(xp_range.elems)
    THEN [state |-> "ok", types |-> types.elems,
          height_range |-> height_range.elems, xp_range |-> xp_range.elems]
    ELSE Raised("AssertionError")

\* Filter.__init__: the object built, or the AssertionError raised.
FilterInit(types, height_range, xp_range) ==
    IF /\ types.kind = "set"
       /\ height_range.kind = "tuple"
       /\ xp_range.kind = "tuple"
       /\ Cardinality(types.elems) > 0
       /\ Len(height_range.elems) = 2
       /\ Len(xp_range.elems) = 2
       /\ GeneratorAssert(types.elems)
       /\ GeneratorAssert(height_range.elems)
       /\ GeneratorAssert(xp_range.elems)
    THEN [state |-> "ok", types |-> types.elems,
          height_range |-> height_range.elems, xp_range |-> xp_range.elems]
    ELSE Raised("AssertionError")

\* a >= b and a <= b of Python: defined between two ints, a TypeError between an
\* int and a str.
PyGe(a, b) ==
    IF a.kind = "int" /\ b.kind = "int"
    THEN (IF a.i >= b.i THEN "True" ELSE "False")
    ELSE "TypeError"

PyLe(a, b) ==
    IF a.kind = "int" /\ b.kind = "int"
    THEN (IF a.i <= b.i THEN "True" ELSE "False")
    ELSE "TypeError"

\* x is not None and x >= range[0] and x <= range[1], left to right with the
\* short circuit of `and`.
InRange(x, range) ==
    IF x.kind = "none" THEN "False"
    ELSE IF PyGe(x, range[1]) # "True" THEN PyGe(x, range[1])
    ELSE PyLe(x, range[2])

\* The four queries give the object after the call (self) and what the call
\* returned or raised (ret).
HeightInRange(self, height) ==
    [self |-> self, ret |-> InRange(height, self.height_range)]

XpInRange(self, xp) ==
    [self |-> self, ret |-> InRange(xp, self.xp_range)]

\* for t in types: if t in self.types: return True
RECURSIVE TypeMatchesLoop(_, _)
TypeMatchesLoop(self, types) ==
    IF types = {} THEN "False"
    ELSE LET t == CHOOSE x \in types : TRUE
         IN IF t \in self.types THEN "True"
            ELSE TypeMatchesLoop(self, types \ {t})

TypeMatches(self, types) ==
    [self |-> self, ret |-> TypeMatchesLoop(self, types)]

\* matching_types written with intersection_update: it narrows self.types in place.
MatchingTypesInPlace(self, types) ==
    [self |-> [self EXCEPT !.types = self.types \cap types],
     arg |-> types,
     ret |-> self.types \cap types]

\* matching_types written with union instead of intersection.
MatchingTypesUnion(self, types) ==
    [self |-> self, arg |-> types, ret |-> self.types \cup types]

\* self.types.intersection(types): a new set; self.types and the argument stay.
MatchingTypes(self, types) ==
    [self |-> self, arg |-> types, ret |-> self.types \cap types]

\* ------------------------------------------- inputs of the Filter calls
CategoryAtoms == {StrV("grass"), StrV("poison"), IntV(1)}
BoundAtoms == {IntV(n) : n \in 0..MaxVal} \cup {StrV("a")}

TypesArgs == {SetArg(S) : S \in SUBSET CategoryAtoms} \cup {ListArg({StrV("grass")})}
RangeArgs ==
    {TupleArg(<<a, b>>) : a \in BoundAtoms, b \in BoundAtoms}
        \cup {TupleArg(<<IntV(1)>>), TupleArg(<<IntV(0), IntV(1), IntV(2)>>), BareInt(1)}

ScalarInputs == {NoneV} \cup {IntV(n) : n \in (0 - 1)..(MaxVal + 1)}
TypeSetInputs == SUBSET {StrV("grass"), StrV("poison"), StrV("fire")}

NoCtor == [types |-> SetArg({}), height_range |-> TupleArg(<<>>), xp_range |-> TupleArg(<<>>)]
NoCall == [name |-> "none", x |-> NoneV, types |-> {}, after |-> {}, ret |-> "", out |-> {}]

\* -------------------------------------------------- the Filter's actions
\* f = Filter(types, height_range, xp_range)
Construct ==
    /\ filter.state = "none"
    /\ \E t \in TypesArgs, h \in RangeArgs, x \in RangeArgs :
          /\ ctor' = [types |-> t, height_range |-> h, xp_range |-> x]
          /\ filter' = FilterInit(t, h, x)
    /\ UNCHANGED <<call, runVars>>

\* The queries can be made on a constructed filter. The call record keeps the argument set as passed (types) and as it is when
\* the call returns (after).
Callable == filter.state = "ok" /\ pc = "idle"

CallHeightInRange ==
    /\ Callable
    /\ \E h \in ScalarInputs :
          LET r == HeightInRange(filter, h)
          IN /\ filter' = r.self
             /\ call' = [name |-> "height_in_range", x |-> h, types |-> {}, after |-> {},
                         ret |-> r.ret, out |-> {}]
    /\ UNCHANGED <<ctor, runVars>>

CallXpInRange ==
    /\ Callable
    /\ \E x \in ScalarInputs :
          LET r == XpInRange(filter, x)
          IN /\ filter' = r.self
             /\ call' = [name |-> "xp_in_range", x |-> x, types |-> {}, after |-> {},
                         ret |-> r.ret, out |-> {}]
    /\ UNCHANGED <<ctor, runVars>>

CallTypeMatches ==
    /\ Callable
    /\ \E T \in TypeSetInputs :
          LET r == TypeMatches(filter, T)
          IN /\ filter' = r.self
             /\ call' = [name |-> "type_matches", x |-> NoneV, types |-> T, after |-> T,
                         ret |-> r.ret, out |-> {}]
    /\ UNCHANGED <<ctor, runVars>>

CallMatchingTypes ==
    /\ Callable
    /\ \E T \in TypeSetInputs :
          LET r == MatchingTypes(filter, T)
          IN /\ filter' = r.self
             /\ call' = [name |-> "matching_types", x |-> NoneV, types |-> T, after |-> r.arg,
                         ret |-> "", out |-> r.ret]
    /\ UNCHANGED <<ctor, runVars>>

\* ------------------------------------------------ the remote catalog
\* One entry of a detail record's "types" list: {"type": {"name": name}}, or an
\* entry without that structure (ok = FALSE).
TypeEntry(name) == [ok |-> TRUE, name |-> name]
BadEntry == [ok |-> FALSE, name |-> ""]

\* The detail records query(p["url"]) answers, by item; fetch_ok = FALSE is a
\* URL whose fetch raises.
ItemData == <<
    [name |-> "bulbasaur", fetch_ok |-> TRUE, base_experience |-> IntV(64),
     height |-> IntV(7), types |-> <<TypeEntry("grass"), TypeEntry("poison")>>],
    [name |-> "pikachu", fetch_ok |-> TRUE, base_experience |-> IntV(112),
     height |-> IntV(4), types |-> <<TypeEntry("electric"), TypeEntry("electric")>>],
    [name |-> "charmander", fetch_ok |-> TRUE, base_experience |-> IntV(62),
     height |-> IntV(6), types |-> <<TypeEntry("fire")>>],
    [name |-> "oddish", fetch_ok |-> TRUE, base_experience |-> IntV(64),
     height |-> NoneV, types |-> <<TypeEntry("grass"), TypeEntry("poison")>>],
    [name |-> "missingno", fetch_ok |-> TRUE, base_experience |-> NoneV,
     height |-> IntV(5), types |-> <<BadEntry>>],
    [name |-> "ivysaur", fetch_ok |-> TRUE, base_experience |-> IntV(142),
     height |-> IntV(10), types |-> <<TypeEntry("grass"), TypeEntry("poison")>>],
    [name |-> "glitch", fetch_ok |-> TRUE, base_experience |-> IntV(64),
     height |-> IntV(7), types |-> <<TypeEntry("grass"), BadEntry>>],
    [name |-> "timeout", fetch_ok |-> FALSE, base_experience |-> NoneV,
     height |-> NoneV, types |-> <<>>]
>>

Items == 1..Len(ItemData)

\* query(url) for a page URL: a page of the catalog, or (ok = FALSE) a raise.
Page(res, next) == [ok |-> TRUE, results |-> res, next |-> next]
FailPage == [ok |-> FALSE, results |-> <<>>, next |-> 0]

\* ------------------------------------------------------- query_paged
\* The loop body with insert-at-front instead of extend.
PagedStepPrepend(u, res, resp) ==
    [results |-> resp.results \o res, url |-> resp.next]

\* results.extend(resp["results"]); url = resp["next"]
PagedStep(u, res, resp) ==
    [results |-> res \o resp.results, url |-> resp.next]

\* One turn of `while url is not None`: resp = query(url), then the body.
PagedLoop ==
    /\ pc = "paging"
    /\ url # 0
    /\ Len(pageFetches) < MaxFetches
    /\ pageFetches' = Append(pageFetches, url)
    /\ IF pages[url].ok
       THEN LET st == PagedStep(url, paged, pages[url])
            IN /\ paged' = st.results
               /\ url' = st.url
               /\ pc' = pc
       ELSE /\ pc' = "aborted"
            /\ UNCHANGED <<paged, url>>
    /\ UNCHANGED <<filterVars, pages, pokemons, idx, detailFetches,
                   passing_pokemons, agg, results, printed>>

\* url is None: return results; get_pokemon binds it to pokemons and starts
\* its first loop.
PagedReturn ==
    /\ pc = "paging"
    /\ url = 0
    /\ pokemons' = paged
    /\ pc' = "testing"
    /\ UNCHANGED <<filterVars, pages, url, paged, pageFetches, idx, detailFetches,
                   passing_pokemons, agg, results, printed>>

\* --------------------------------------------------------- get_types
\* set(t["type"]["name"] for t in pokemon["types"]); a KeyError when an entry
\* lacks the structure.
GetTypes(pokemon) ==
    IF \E k \in DOMAIN pokemon.types : ~pokemon.types[k].ok
    THEN [exc |-> TRUE, ret |-> {}]
    ELSE [exc |-> FALSE, ret |-> {StrV(pokemon.types[k].name) : k \in DOMAIN pokemon.types}]

\* ------------------------------------------------------- get_pokemon
\* The condition without the height test.
PassesFilterNoHeight(self, p_data) ==
    LET a == XpInRange(self, p_data.base_experience)
        g == GetTypes(p_data)
    IN IF a.ret # "True" THEN a
       ELSE IF g.exc THEN [self |-> a.self, ret |-> "KeyError"]
       ELSE TypeMatches(a.self, g.ret)

\* The condition with the error of get_types caught and read as "no match".
PassesFilterSwallow(self, p_data) ==
    LET a == XpInRange(self, p_data.base_experience)
        b == HeightInRange(a.self, p_data.height)
        g == GetTypes(p_data)
    IN IF a.ret # "True" THEN a
       ELSE IF b.ret # "True" THEN b
       ELSE IF g.exc THEN [self |-> b.self, ret |-> "False"]
       ELSE TypeMatches(b.self, g.ret)

\* filter.xp_in_range(p_data["base_experience"]) and
\* filter.height_in_range(p_data["height"]) and filter.type_matches(get_types(p_data)):
\* left to right, a later operand is evaluated only when the earlier ones are true.
PassesFilter(self, p_data) ==
    LET a == XpInRange(self, p_data.base_experience)
        b == HeightInRange(a.self, p_data.height)
        g == GetTypes(p_data)
    IN IF a.ret # "True" THEN a
       ELSE IF b.ret # "True" THEN b
       ELSE IF g.exc THEN [self |-> b.self, ret |-> "KeyError"]
       ELSE TypeMatches(b.self, g.ret)

EmptyDict == [t \in {} |-> <<>>]

\* The append written as an insert at the front.
DictPrepend(res, t, name) ==
    IF t \in DOMAIN res
    THEN [res EXCEPT ![t] = <<name>> \o @]
    ELSE res @@ (t :> <<name>>)

\* if t not in results: results[t] = []
\* results[t].append(name)
DictAppend(res, t, name) ==
    IF t \in DOMAIN res
    THEN [res EXCEPT ![t] = Append(@, name)]
    ELSE res @@ (t :> <<name>>)

\* for t in matching_types: ... (the order of a set's elements does not show in
\* the result: the appends go to different keys).
RECURSIVE AppendAll(_, _, _)
AppendAll(res, types, name) ==
    IF types = {} THEN res
    ELSE LET t == CHOOSE x \in types : TRUE
         IN AppendAll(DictAppend(res, t, name), types \ {t}, name)

\* The same over the raw "types" list, entry by entry.
RECURSIVE AppendEach(_, _, _, _)
AppendEach(self, res, entries, name) ==
    IF entries = <<>> THEN res
    ELSE LET t == StrV(Head(entries).name)
         IN AppendEach(self,
                       IF t \in self.types THEN DictAppend(res, t, name) ELSE res,
                       Tail(entries), name)

\* The body of the second loop without the set: one append per raw entry.
AggregatePokemonRaw(self, res, p) ==
    LET g == GetTypes(p)
    IN IF g.exc
       THEN [self |-> self, exc |-> TRUE, results |-> res]
       ELSE [self |-> self, exc |-> FALSE,
             results |-> AppendEach(self, res, p.types, p.name)]

\* The body of the second loop:
\* matching_types = filter.matching_types(get_types(p)), then the appends.
AggregatePokemon(self, res, p) ==
    LET g == GetTypes(p)
        m == MatchingTypes(self, g.ret)
    IN IF g.exc
       THEN [self |-> self, exc |-> TRUE, results |-> res]
       ELSE [self |-> m.self, exc |-> FALSE,
             results |-> AppendAll(res, m.ret, p.name)]

\* One turn of the first loop: p_data = query(p["url"]), the test, the append.
TestItem ==
    /\ pc = "testing"
    /\ idx <= Len(pokemons)
    /\ detailFetches' = Append(detailFetches, pokemons[idx])
    /\ LET p_data == ItemData[pokemons[idx]]
           r == PassesFilter(filter, p_data)
       IN IF ~p_data.fetch_ok
          THEN /\ pc' = "aborted"
               /\ UNCHANGED <<filter, idx, passing_pokemons>>
          ELSE /\ filter' = r.self
               /\ IF r.ret \in {"True", "False"}
                  THEN /\ idx' = idx + 1
                       /\ passing_pokemons' =
                            IF r.ret = "True"
                            THEN Append(passing_pokemons, pokemons[idx])
                            ELSE passing_pokemons
                       /\ pc' = pc
                  ELSE /\ pc' = "aborted"
                       /\ UNCHANGED <<idx, passing_pokemons>>
    /\ UNCHANGED <<ctor, call, pages, url, paged, pageFetches, pokemons, agg,
                   results, printed>>

\* The first loop is over: results = dict()
TestDone ==
    /\ pc = "testing"
    /\ idx > Len(pokemons)
    /\ results' = EmptyDict
    /\ agg' = 1
    /\ pc' = "aggregating"
    /\ UNCHANGED <<filterVars, pages, url, paged, pageFetches, pokemons, idx,
                   detailFetches, passing_pokemons, printed>>

\* One turn of the second loop.
AggregateItem ==
    /\ pc = "aggregating"
    /\ agg <= Len(passing_pokemons)
    /\ LET r == AggregatePokemon(filter, results, ItemData[passing_pokemons[agg]])
       IN /\ filter' = r.self
          /\ IF r.exc
             THEN /\ pc' = "aborted"
                  /\ UNCHANGED <<agg, results>>
             ELSE /\ results' = r.results
                  /\ agg' = agg + 1
                  /\ pc' = pc
    /\ UNCHANGED <<ctor, call, pages, url, paged, pageFetches, pokemons, idx,
                   detailFetches, passing_pokemons, printed>>

\* pprint(results)
PrintResults ==
    /\ pc = "aggregating"
    /\ agg > Len(passing_pokemons)
    /\ printed' = TRUE
    /\ pc' = "done"
    /\ UNCHANGED <<filterVars, pages, url, paged, pageFetches, pokemons, idx,
                   detailFetches, passing_pokemons, agg, results>>

\* ----------------------------------------------------- specifications
InitFilter ==
    /\ filter = NoFilter
    /\ ctor = NoCtor
    /\ call = NoCall
    /\ pages = <<>>
    /\ pc = "idle"
    /\ url = 0
    /\ paged = <<>>
    /\ pageFetches = <<>>
    /\ pokemons = <<>>
    /\ idx = 1
    /\ detailFetches = <<>>
    /\ passing_pokemons = <<>>
    /\ agg = 1
    /\ results = EmptyDict
    /\ printed = FALSE

NextFilter ==
    \/ Construct
    \/ CallHeightInRange
    \/ CallXpInRange
    \/ CallTypeMatches
    \/ CallMatchingTypes

\* The Filter alone: one construction, then any queries.
SpecFilter == InitFilter /\ [][NextFilter]_vars

\* The filters get_pokemon is run with: the one of the script's last line, a
\* narrower one, and one whose height range holds a str (which __init__ lets pass).
PipeFilterArgs == {
    [types |-> SetArg({StrV("grass"), StrV("poison"), StrV("electric")}),
     height_range |-> TupleArg(<<IntV(1), IntV(100)>>),
     xp_range |-> TupleArg(<<IntV(20), IntV(200)>>)],
    [types |-> SetArg({StrV("poison"), StrV("electric")}),
     height_range |-> TupleArg(<<IntV(5), IntV(10)>>),
     xp_range |-> TupleArg(<<IntV(50), IntV(120)>>)],
    [types |-> SetArg({StrV("grass")}),
     height_range |-> TupleArg(<<StrV("a"), IntV(100)>>),
     xp_range |-> TupleArg(<<IntV(100), IntV(200)>>)] }

RECURSIVE SeqsUpTo(_, _)
SeqsUpTo(S, n) ==
    IF n = 0 THEN {<<>>}
    ELSE LET shorter == SeqsUpTo(S, n - 1)
         IN shorter \cup {Append(q, x) : q \in shorter, x \in S}

Min(a, b) == IF a <= b THEN a ELSE b

\* The listing cut into pages of PageSize items, page u naming page u + 1; with
\* failTail, a last page whose fetch raises.
ListingPages(listing, failTail) ==
    LET full == IF Len(listing) = 0 THEN 1
                ELSE (Len(listing) + PageSize - 1) \div PageSize
        n == IF failTail THEN full + 1 ELSE full
    IN [u \in 1..n |->
          IF u > full THEN FailPage
          ELSE Page(SubSeq(listing, (u - 1) * PageSize + 1, Min(u * PageSize, Len(listing))),
                    IF u < n THEN u + 1 ELSE 0)]

\* get_pokemon(filter) from its first line, on any catalog of at most
\* MaxListing listed items.
InitPipe ==
    /\ \E a \in PipeFilterArgs :
          /\ ctor = a
          /\ filter = FilterInit(a.types, a.height_range, a.xp_range)
    /\ call = NoCall
    /\ \E listing \in SeqsUpTo(Items, MaxListing), failTail \in BOOLEAN :
          pages = ListingPages(listing, failTail)
    /\ pc = "paging"
    /\ url = 1
    /\ paged = <<>>
    /\ pageFetches = <<>>
    /\ pokemons = <<>>
    /\ idx = 1
    /\ detailFetches = <<>>
    /\ passing_pokemons = <<>>
    /\ agg = 1
    /\ results = EmptyDict
    /\ printed = FALSE

NextPipe ==
    \/ PagedLoop
    \/ PagedReturn
    \/ TestItem
    \/ TestDone
    \/ AggregateItem
    \/ PrintResults

SpecPipe == InitPipe /\ [][NextPipe]_vars

\* A Filter in either use: built and queried directly, or handed to a run.
InitUse == InitFilter \/ InitPipe
NextUse == NextFilter \/ NextPipe
SpecUse == InitUse /\ [][NextUse]_vars

\* query_paged(url) alone, on any catalog of NPages pages.
PageResults == {<<1, 2>>, <<3>>}
PageRecords == {FailPage} \cup {Page(r, n) : r \in PageResults, n \in 0..NPages}

InitPaged ==
    /\ filter = NoFilter
    /\ ctor = NoCtor
    /\ call = NoCall
    /\ pages \in [1..NPages -> PageRecords]
    /\ pc = "paging"
    /\ url = 1
    /\ paged = <<>>
    /\ pageFetches = <<>>
    /\ pokemons = <<>>
    /\ idx = 1
    /\ detailFetches = <<>>
    /\ passing_pokemons = <<>>
    /\ agg = 1
    /\ results = EmptyDict
    /\ printed = FALSE

NextPaged ==
    \/ PagedLoop
    \/ PagedReturn

\* The loop is sequential code: a step that can be taken is taken.
SpecPaged == InitPaged /\ [][NextPaged]_vars /\ WF_vars(NextPaged)

\* ------------------------------------------------- what the claims say
\* A range, an inclusion and a category set as the specification words them,
\* written without the code's operators.
IsIntPair(r) == Len(r) = 2 /\ r[1].kind = "int" /\ r[2].kind = "int"
Within(x, r) == x.kind = "int" /\ IsIntPair(r) /\ r[1].i <= x.i /\ x.i <= r[2].i
Inverted(r) == IsIntPair(r) /\ r[1].i > r[2].i
PyBool(b) == IF b THEN "True" ELSE "False"

WellFormed(d) == \A k \in DOMAIN d.types : d.types[k].ok
TypeNames(d) == {StrV(d.types[k].name) : k \in {j \in DOMAIN d.types : d.types[j].ok}}
\* Item d belongs under category c of filter f.
Included(f, d, c) ==
    /\ Within(d.base_experience, f.xp_range)
    /\ Within(d.height, f.height_range)
    /\ c \in TypeNames(d)
    /\ c \in f.types
Entries(res, c) == IF c \in DOMAIN res THEN res[c] ELSE <<>>
AllCategories == UNION {TypeNames(ItemData[i]) : i \in Items} \cup filter.types
NamesOf(q) == [k \in DOMAIN q |-> ItemData[q[k]].name]
Listed(k) == ItemData[pokemons[k]]
Count(q, x) == Cardinality({k \in DOMAIN q : q[k] = x})

\* C1: constructing a Filter fails when the category set is empty or holds a
\* non-string, when a range is not a pair, and when a bound is not an integer:
\* a Filter that was built got a non-empty set of strings and two pairs of integers.
C1_MalformedArgumentsRejected ==
    filter.state = "ok" =>
        /\ ctor.types.kind = "set"
        /\ ctor.types.elems # {}
        /\ \A e \in ctor.types.elems : e.kind = "str"
        /\ ctor.height_range.kind = "tuple" /\ IsIntPair(ctor.height_range.elems)
        /\ ctor.xp_range.kind = "tuple" /\ IsIntPair(ctor.xp_range.elems)

\* C2 as stated: no Filter is built with low > high in its height range or its
\* XP range. (Stated for string categories, so that what refutes it is a Filter
\* whose only flaw is the order of its bounds.)
C2_ConstructedRangesOrdered ==
    (filter.state = "ok" /\ \A e \in filter.types : e.kind = "str") =>
        ~Inverted(filter.height_range) /\ ~Inverted(filter.xp_range)

ShapeValid(a) ==
    /\ a.types.kind = "set" /\ a.types.elems # {}
    /\ a.height_range.kind = "tuple" /\ Len(a.height_range.elems) = 2
    /\ a.xp_range.kind = "tuple" /\ Len(a.xp_range.elems) = 2

\* C2 amended: __init__ does not compare the two bounds. A non-empty set with two
\* pairs builds a Filter that stores the ranges as given, low > high included, and
\* on a range with low > high the range predicate answers False to every integer
\* and to None.
C2_OrderingNotChecked ==
    /\ (ShapeValid(ctor)
          /\ (Inverted(ctor.height_range.elems) \/ Inverted(ctor.xp_range.elems)))
        => /\ filter.state = "ok"
           /\ filter.height_range = ctor.height_range.elems
           /\ filter.xp_range = ctor.xp_range.elems
    /\ (call.name = "height_in_range" /\ Inverted(filter.height_range))
        => call.ret = "False"
    /\ (call.name = "xp_in_range" /\ Inverted(filter.xp_range))
        => call.ret = "False"

C2_InvertedRangeQueried ==
    /\ filter.state = "ok"
    /\ Inverted(filter.height_range)
    /\ call.name = "height_in_range"
    /\ call.x.kind = "int"
    /\ call.ret = "False"

\* C3: on every constructed Filter, for h an integer or None, height_in_range(h)
\* returns False for None and otherwise True exactly when low <= h <= high of the
\* height range; xp_in_range does the same against the XP range.
C3_RangePredicates ==
    /\ call.name = "height_in_range"
        => /\ call.ret \in {"True", "False"}
           /\ IsIntPair(filter.height_range)
                => call.ret = PyBool(Within(call.x, filter.height_range))
    /\ call.name = "xp_in_range"
        => /\ call.ret \in {"True", "False"}
           /\ IsIntPair(filter.xp_range)
                => call.ret = PyBool(Within(call.x, filter.xp_range))

\* C4: matching_types(T) is exactly T intersected with the filter's categories,
\* and type_matches(T) is True exactly when some element of T is one of them.
C4_TypeQueries ==
    /\ call.name = "matching_types"
        => \A t \in call.types \cup filter.types \cup call.out :
              t \in call.out <=> (t \in call.types /\ t \in filter.types)
    /\ call.name = "type_matches"
        => call.ret = PyBool(\E t \in call.types : t \in filter.types)

C4_ProperIntersection ==
    /\ call.name = "matching_types"
    /\ call.out # {}
    /\ call.out # call.types
    /\ call.out # filter.types

\* C5: when the run completes, an item's name is under category c exactly when
\* its base_experience and height are non-null and in range and c is one of its
\* types and one of the filter's categories; no other key exists, and an empty
\* listing gives an empty map.
C5_ResultMembership ==
    printed =>
        /\ \A c \in AllCategories : \A k \in DOMAIN pokemons :
              (\E j \in DOMAIN Entries(results, c) : Entries(results, c)[j] = Listed(k).name)
                  <=> Included(filter, Listed(k), c)
        /\ \A c \in DOMAIN results :
              \E k \in DOMAIN pokemons : Included(filter, Listed(k), c)
        /\ pokemons = <<>> => results = EmptyDict

C5_TwoKeysAndNullHeight ==
    /\ printed
    /\ \E c1 \in DOMAIN results, c2 \in DOMAIN results :
          /\ c1 # c2
          /\ \E j1 \in DOMAIN results[c1] : results[c1][j1] = "bulbasaur"
          /\ \E j2 \in DOMAIN results[c2] : results[c2][j2] = "bulbasaur"
    /\ \E k \in DOMAIN pokemons : Listed(k).height = NoneV
    /\ \E k \in DOMAIN pokemons : Listed(k).name = "charmander"

\* C6: each listing position adds at most one entry to a category, also when the
\* raw record names a type twice: the length of result[c] is the number of listing
\* positions whose item passes the filter and has type c.
C6_OneEntryPerPosition ==
    printed =>
        \A c \in AllCategories :
            Len(Entries(results, c)) =
                Cardinality({k \in DOMAIN pokemons : Included(filter, Listed(k), c)})

C6_DuplicateRawType ==
    /\ printed
    /\ StrV("electric") \in DOMAIN results
    /\ Count(pokemons, 2) = 2
    /\ Len(results[StrV("electric")]) = 2

\* C7 as stated: a failed page fetch, a failed detail fetch or a detail record
\* without the types[i].type.name structure aborts the run at that item, whatever
\* the item's XP and height: the loop never gets past such an item and nothing is
\* printed. (Stated for filters with integer ranges, so that what refutes it is a
\* run in which every comparison is defined.)
C7_AnyMalformedRecordAborts ==
    (IsIntPair(filter.height_range) /\ IsIntPair(filter.xp_range)) =>
    /\ pc = "aborted" => ~printed
    /\ \A j \in DOMAIN pageFetches :
          ~pages[pageFetches[j]].ok => pc = "aborted" /\ pokemons = <<>>
    /\ \A k \in DOMAIN detailFetches :
          LET d == ItemData[detailFetches[k]]
          IN (~d.fetch_ok \/ ~WellFormed(d)) => pc = "aborted" /\ idx = k

Aborting(f, d) ==
    \/ ~d.fetch_ok
    \/ /\ ~WellFormed(d)
       /\ Within(d.base_experience, f.xp_range)
       /\ Within(d.height, f.height_range)

PassedOver(f, d) ==
    /\ d.fetch_ok
    /\ \/ IsIntPair(f.xp_range) /\ ~Within(d.base_experience, f.xp_range)
       \/ /\ Within(d.base_experience, f.xp_range)
          /\ IsIntPair(f.height_range)
          /\ ~Within(d.height, f.height_range)

\* C7 amended: a failed page fetch, a failed detail fetch, or a record without
\* the types structure on an item whose XP and height are both in range aborts the
\* run there with nothing printed. A record without the structure on an item
\* whose XP or height test is false is never classified: the item is passed over
\* as a non-match and the run goes on.
C7_FailureAborts ==
    /\ pc = "aborted" => ~printed
    /\ \A j \in DOMAIN pageFetches :
          ~pages[pageFetches[j]].ok
              => /\ pc = "aborted"
                 /\ j = Len(pageFetches)
                 /\ pokemons = <<>>
                 /\ detailFetches = <<>>
    /\ \A k \in DOMAIN detailFetches :
          LET d == ItemData[detailFetches[k]]
          IN /\ Aborting(filter, d)
                  => /\ pc = "aborted"
                     /\ k = Len(detailFetches)
                     /\ idx = k
                     /\ results = EmptyDict
             /\ PassedOver(filter, d)
                  => /\ idx > k
                     /\ Count(passing_pokemons, detailFetches[k]) = 0

C7_AbortAfterPassedOver ==
    /\ pc = "aborted"
    /\ idx = 2
    /\ ~WellFormed(Listed(1))
    /\ ~WellFormed(Listed(2))
    /\ Listed(2).fetch_ok

VerdictsAgree ==
    \A i \in Items :
        Count(passing_pokemons, i) \in {0, Count(SubSeq(pokemons, 1, idx - 1), i)}

\* C8: once built, the filter's categories and ranges are changed by no query and
\* by no step of a run, and matching_types leaves its argument as it was; so an
\* item listed twice gets the same verdict both times, with the queries on the
\* items between them made in between, and a query repeated on the same input
\* returns the same result.
C8_FilterNeverMutated ==
    [][/\ filter.state = "ok" => filter' = filter
       /\ VerdictsAgree'
       /\ call'.after = call'.types
       /\ (call.name # "none" /\ call'.name = call.name
              /\ call'.x = call.x /\ call'.types = call.types)
            => (call'.ret = call.ret /\ call'.out = call.out)]_vars

C8_SameItemTwice ==
    /\ printed
    /\ Len(pokemons) = 3
    /\ pokemons[1] = pokemons[3]
    /\ pokemons[1] # pokemons[2]
    /\ Count(passing_pokemons, pokemons[1]) = 2
    /\ Count(passing_pokemons, pokemons[2]) = 1
    /\ \E c \in filter.types : c \notin DOMAIN results

RECURSIVE Ends(_, _)
Ends(u, n) == u = 0 \/ (n > 0 /\ pages[u].ok /\ Ends(pages[u].next, n - 1))
RECURSIVE Loops(_, _)
Loops(u, n) == u # 0 /\ pages[u].ok /\ (n = 0 \/ Loops(pages[u].next, n - 1))
RECURSIVE Chain(_, _)
Chain(u, n) ==
    IF u = 0 \/ n = 0 THEN <<>> ELSE <<u>> \o Chain(pages[u].next, n - 1)
RECURSIVE Concat(_)
Concat(us) ==
    IF us = <<>> THEN <<>> ELSE pages[Head(us)].results \o Concat(Tail(us))

FiniteChain == Ends(1, Cardinality(DOMAIN pages))
Cycle == Loops(1, Cardinality(DOMAIN pages))
ChainPages == Chain(1, Cardinality(DOMAIN pages))

\* C9: query_paged fetches the start page and then the page each "next" names,
\* and returns exactly when a "next" is null. On a finite chain it terminates,
\* has fetched each page of the chain once, in order, and returns the pages'
\* results concatenated in that order; on a cycle of next links it never returns.
C9_QueryPaged ==
    /\ [](pc = "testing" =>
            /\ FiniteChain
            /\ pageFetches = ChainPages
            /\ \A i \in DOMAIN pageFetches : \A j \in DOMAIN pageFetches :
                  i # j => pageFetches[i] # pageFetches[j]
            /\ pages[pageFetches[Len(pageFetches)]].next = 0
            /\ pokemons = Concat(ChainPages))
    /\ [](Cycle => pc = "paging")
    /\ (FiniteChain ~> pc = "testing")

C9_ThreePagesReturned ==
    /\ pc = "testing"
    /\ Len(pageFetches) = 3
    /\ pokemons = <<3, 1, 2, 3>>

\* C10: details are fetched one at a time in listing order; the aggregation
\* starts when every listed item has been fetched and tested; each category's
\* sequence holds its items' names in listing order; every key is one of the
\* filter's categories and maps to a non-empty sequence.
C10_ListingOrder ==
    /\ Len(detailFetches) <= Len(pokemons)
    /\ detailFetches = SubSeq(pokemons, 1, Len(detailFetches))
    /\ Len(detailFetches) \in {idx - 1, idx}
    /\ (pc \in {"aggregating", "done"} \/ results # EmptyDict \/ agg > 1)
        => idx = Len(pokemons) + 1 /\ Len(detailFetches) = Len(pokemons)
    /\ \A c \in DOMAIN results : c \in filter.types /\ results[c] # <<>>
    /\ printed =>
          \A c \in DOMAIN results :
              results[c] = NamesOf(SelectSeq(pokemons,
                                   LAMBDA i : Included(filter, ItemData[i], c)))

C10_TwoNamesInOrder ==
    /\ printed
    /\ StrV("grass") \in DOMAIN results
    /\ results[StrV("grass")] = <<"bulbasaur", "ivysaur">>

====
